---- MODULE Spec2Model ----
(***************************************************************************)
(* Model of patchless_nnunet: the PatchlessnnUnetDataset (constructor and  *)
(* __getitem__ pipeline), PatchlessnnUnetDataModule.calculate_common_      *)
(* spacing, and the soft_argmax / linear_expectation pair of custom_dsnt.  *)
(*                                                                         *)
(* Arrays and tensors are represented by their shapes (tuples of axis      *)
(* lengths); a temporal window by the half-open frame range it was cut at. *)
(* Python's None is the empty tuple, a set value v is the 1-tuple <<v>>,   *)
(* except for common_spacing, which is None or a 3-tuple.                  *)
(***************************************************************************)
EXTENDS Integers, Sequences, FiniteSets, TLC

VARIABLES
    \* ---- PatchlessnnUnetDataset fields (self.*)
    split,                \* row ids of the dataframe passed to the constructor
    df,                   \* row ids of self.df
    self_test,            \* self.test
    max_tensor_volume,    \* self.max_tensor_volume
    shape_divisible_by,   \* self.shape_divisible_by
    max_window_len,       \* self.max_window_len   (None or <<n>>)
    max_batch_size,       \* self.max_batch_size   (None or <<n>>)
    common_spacing,       \* self.common_spacing   (None or 3-tuple)
    use_dataset_fraction, \* constructor argument, in units of 1/FracDen
    warnings,             \* the warnings printed by the constructor
    \* ---- __getitem__ locals
    pc,                   \* position in the constructor / __getitem__
    row,                  \* the dataframe row self.df.iloc[idx] (0: none yet)
    original_shape,       \* shape of the loaded image
    pixdim,               \* img_nifti.header['pixdim'][1:4]
    img,                  \* shape of img at the current position
    mask,                 \* shape of mask at the current position
    resampled,            \* resampled.shape (with the channel axis)
    desired,              \* the value get_desired_size returned
    dynamic_batch_size,   \* number of windows to cut (-1: not computed)
    b_img,                \* windows cut from img : sequence of [start, stop]
    b_mask,               \* windows cut from mask: sequence of [start, stop]
    error,                \* message of the exception that ended the call
    result,               \* the returned sample record (None: nothing returned)
    \* ---- calculate_common_spacing
    cs_pc,                \* position in calculate_common_spacing
    cs_headers,           \* header['pixdim'][1:4] of each record of self.df
    cs_num_samples,       \* the num_samples argument
    cs_idx,               \* idx
    cs_read,              \* the records the loop has read so far
    cs_spacings,          \* spacings
    cs_result,            \* the returned value (None: not returned)
    \* ---- soft_argmax
    sa_pc,                \* position in soft_argmax
    heatmaps,             \* heatmaps[<<h, w, t>>] of the one (batch, channel) block
    sa_size,              \* heatmaps.size()
    normalized_coordinates,
    coords,               \* coords[t]: the tuple of coordinates of slice t
    \* ---- PatchlessnnUnetDataModule
    dm_valid,             \* the rows of the table with valid_segmentation == True
    dm_df,                \* row ids (index) of self.df
    dm_column,            \* the splits column of self.df: None, or <<labels>>
    splits_column,        \* whether hparams.splits_column is configured
    dm_rng1, dm_rng2,     \* RandomState(hparams.seed).permutation(n), per length n
    train_idx, val_idx, test_idx,     \* self.train_idx, self.val_idx, self.test_idx
    data_train, data_val, data_test,  \* rows handed to each dataset (None: not built)
    csv_writes,           \* number of self.df.to_csv calls
    setup_calls,          \* number of setup calls made
    setup_error           \* whether the last setup call raised

dsVars == <<split, df, self_test, max_tensor_volume, shape_divisible_by, max_window_len,
            max_batch_size, common_spacing, use_dataset_fraction, warnings>>
cfgVars == <<split, self_test, max_tensor_volume, shape_divisible_by, max_window_len,
             max_batch_size, common_spacing, use_dataset_fraction>>
giVars == <<pc, row, original_shape, pixdim, img, mask, resampled, desired,
            dynamic_batch_size, b_img, b_mask, error, result>>
csVars == <<cs_pc, cs_headers, cs_num_samples, cs_idx, cs_read, cs_spacings, cs_result>>
saVars == <<sa_pc, heatmaps, sa_size, normalized_coordinates, coords>>
dmVars == <<dm_valid, dm_df, dm_column, splits_column, dm_rng1, dm_rng2,
            train_idx, val_idx, test_idx, data_train, data_val, data_test,
            csv_writes, setup_calls, setup_error>>
vars == <<dsVars, giVars, csVars, saVars, dmVars>>

-----------------------------------------------------------------------------
\* Bounds of the model.
MaxRows == 3      \* rows of a dataframe
MaxSide == 2      \* width / height of a loaded volume
MaxFrames == 5    \* temporal length of a loaded volume
MaxSamples == 3   \* num_samples of calculate_common_spacing
MaxHeat == 2      \* length of each spatial axis of a heatmap
MaxTrail == 2     \* length of the trailing axis of a heatmap
FracDen == 4      \* use_dataset_fraction is counted in quarters
MaxTable == 7     \* rows of the table a data module reads
MaxCalls == 3     \* setup calls made on one data module

None == <<>>
Some(v) == <<v>>
Min(a, b) == IF a < b THEN a ELSE b
Max(a, b) == IF a > b THEN a ELSE b

\* Python truthiness of an optional integer: None and 0 are falsy.
Truthy(opt) == opt # None /\ opt[1] # 0

\* np.ceil(a / b) and np.floor(a / b) for a >= 0, b > 0.
Ceil(a, b) == (a + b - 1) \div b
Floor(a, b) == a \div b

\* Python's round(num / den) for num >= 0, den > 0: ties go to the even integer.
Round(num, den) ==
    LET q == num \div den
        r == num % den
    IN  IF 2 * r < den THEN q
        ELSE IF 2 * r > den THEN q + 1
        ELSE IF q % 2 = 0 THEN q ELSE q + 1

\* len(a[..., :stop]) for an axis of n elements and stop >= 0.
SliceLen(n, stop) == Min(n, stop)

-----------------------------------------------------------------------------
\* Configuration values the model draws from.
DefaultTensorVolume == 5000000
TensorVolumes == {3, DefaultTensorVolume}
Divisors == {<<2, 2, 2>>, <<3, 2, 4>>, <<2, 3, 1>>}
WindowLens == {None, Some(2), Some(3)}
BatchSizes == {None, Some(0), Some(1), Some(2)}
Spacings == {None, <<1, 1, 2>>}
Pixdims == {<<1, 1, 2>>, <<2, 2, 2>>}
Fractions == -1 .. (FracDen + 1)
Shapes == {<<w, h, t>> : w \in 1..MaxSide, h \in 1..MaxSide, t \in 1..MaxFrames}

\* Values of the variables of the parts a specification does not exercise.
GetItemIdle ==
    /\ row = 0
    /\ original_shape = None /\ pixdim = None /\ img = None /\ mask = None
    /\ resampled = None /\ desired = None /\ dynamic_batch_size = -1
    /\ b_img = <<>> /\ b_mask = <<>> /\ error = "" /\ result = None
SpacingIdle ==
    /\ cs_pc = "idle" /\ cs_headers = <<>> /\ cs_num_samples = 0 /\ cs_idx = <<>>
    /\ cs_read = <<>> /\ cs_spacings = <<0, 0, 0>> /\ cs_result = None
DsntIdle ==
    /\ sa_pc = "idle" /\ heatmaps = <<>> /\ sa_size = <<>>
    /\ normalized_coordinates = FALSE /\ coords = <<>>
SetupIdle ==
    /\ dm_valid = {} /\ dm_df = {} /\ dm_column = None /\ splits_column = FALSE
    /\ dm_rng1 = <<>> /\ dm_rng2 = <<>>
    /\ train_idx = <<>> /\ val_idx = <<>> /\ test_idx = <<>>
    /\ data_train = None /\ data_val = None /\ data_test = None
    /\ csv_writes = 0 /\ setup_calls = 0 /\ setup_error = FALSE
DatasetIdle ==
    /\ split = {} /\ df = {} /\ self_test = FALSE /\ max_tensor_volume = DefaultTensorVolume
    /\ shape_divisible_by = <<32, 32, 4>> /\ max_window_len = None
    /\ max_batch_size = None /\ common_spacing = None
    /\ use_dataset_fraction = FracDen /\ warnings = {}
    /\ pc = "idle" /\ GetItemIdle

-----------------------------------------------------------------------------
\* PatchlessnnUnetDataset.__init__

\* The arguments the constructor stores in self (lines 37-49).
InitNew ==
    /\ pc = "new"
    /\ split \in {1..n : n \in 0..MaxRows}
    /\ df = split
    /\ use_dataset_fraction \in Fractions
    /\ max_batch_size \in {None, Some(2), Some(11)}
    /\ self_test \in BOOLEAN
    /\ max_tensor_volume = DefaultTensorVolume
    /\ shape_divisible_by = <<32, 32, 4>>
    /\ max_window_len = None
    /\ common_spacing = None
    /\ warnings = {}
    /\ GetItemIdle /\ SpacingIdle /\ DsntIdle /\ SetupIdle

\* df.sample(frac=f): round(f * len(df)) rows drawn without replacement.
Sample(rows, frac) ==
    {s \in SUBSET rows : Cardinality(s) = Round(frac * Cardinality(rows), FracDen)}

LargeBatchWarning ==
    IF Truthy(max_batch_size) /\ max_batch_size[1] > 10 THEN {"large_batch"} ELSE {}

DatasetInit ==
    /\ pc = "new"
    /\ IF use_dataset_fraction # 0
       THEN IF 0 < use_dataset_fraction /\ use_dataset_fraction < FracDen
            THEN /\ df' \in Sample(df, use_dataset_fraction)
                 /\ warnings' = LargeBatchWarning
            ELSE /\ df' = df
                 /\ warnings' = LargeBatchWarning \cup {"invalid_fraction"}
       ELSE /\ df' = df
            /\ warnings' = LargeBatchWarning
    /\ pc' = "ready"
    /\ UNCHANGED <<cfgVars, row, original_shape, pixdim, img, mask, resampled, desired,
                   dynamic_batch_size, b_img, b_mask, error, result, csVars, saVars, dmVars>>

\* PatchlessnnUnetDataset.__len__
DatasetLen == Cardinality(df)

NextInit == DatasetInit
SpecInit == InitNew /\ [][NextInit]_vars

-----------------------------------------------------------------------------
\* PatchlessnnUnetDataset.get_desired_size

get_desired_size_ceil_train(current_shape) ==
    LET x == Ceil(current_shape[1], shape_divisible_by[1]) * shape_divisible_by[1]
        y == Ceil(current_shape[2], shape_divisible_by[2]) * shape_divisible_by[2]
        z == IF ~self_test
             THEN Ceil(current_shape[3], shape_divisible_by[3]) * shape_divisible_by[3]
             ELSE current_shape[3]
    IN  <<x, y, z>>

get_desired_size_ceil_test(current_shape) ==
    LET x == Ceil(current_shape[1], shape_divisible_by[1]) * shape_divisible_by[1]
        y == Ceil(current_shape[2], shape_divisible_by[2]) * shape_divisible_by[2]
        z == IF ~self_test
             THEN Floor(current_shape[3], shape_divisible_by[3]) * shape_divisible_by[3]
             ELSE Ceil(current_shape[3], shape_divisible_by[3]) * shape_divisible_by[3]
    IN  <<x, y, z>>

get_desired_size(current_shape) ==
    LET x == Ceil(current_shape[1], shape_divisible_by[1]) * shape_divisible_by[1]
        y == Ceil(current_shape[2], shape_divisible_by[2]) * shape_divisible_by[2]
        z == IF ~self_test
             THEN Floor(current_shape[3], shape_divisible_by[3]) * shape_divisible_by[3]
             ELSE current_shape[3]
    IN  <<x, y, z>>

-----------------------------------------------------------------------------
\* PatchlessnnUnetDataset.__getitem__

\* tio.Resample(common_spacing) applied to a volume of the given shape whose
\* header spacing is pd. The model draws spacings for which every axis extent
\* is a whole number of target voxels, so the library's rounding plays no part.
ResampledShape(shape, pd, sp) == [i \in 1..3 |-> (shape[i] * pd[i]) \div sp[i]]

\* Lines 62-66: open the image and the mask of row idx; both share one grid.
GetItem_Load ==
    /\ pc = "ready"
    /\ \E r \in df, shape \in Shapes, pd \in Pixdims :
          /\ row' = r
          /\ img' = shape
          /\ mask' = shape
          /\ original_shape' = shape
          /\ pixdim' = pd
    /\ pc' = "loaded"
    /\ UNCHANGED <<dsVars, resampled, desired, dynamic_batch_size, b_img, b_mask,
                   error, result, csVars, saVars, dmVars>>

\* Line 71.
time_len_off_by_one(shape) == max_tensor_volume \div (shape[1] * shape[2]) + 1

time_len(shape) == max_tensor_volume \div (shape[1] * shape[2])

\* Lines 68-73: limit the size of the tensor so it can fit on the GPU.
GetItem_Cap ==
    /\ pc = "loaded"
    /\ IF ~self_test /\ img[1] * img[2] * img[3] > max_tensor_volume
       THEN /\ img' = [img EXCEPT ![3] = SliceLen(img[3], time_len(img))]
            /\ mask' = [mask EXCEPT ![3] = SliceLen(mask[3], time_len(img))]
       ELSE UNCHANGED <<img, mask>>
    /\ pc' = "capped"
    /\ UNCHANGED <<dsVars, row, original_shape, pixdim, resampled, desired,
                   dynamic_batch_size, b_img, b_mask, error, result, csVars, saVars, dmVars>>

\* Lines 76-79 with the check of line 76 left out and the library's default taken.
GetItem_Resample_default_spacing ==
    /\ pc = "capped"
    /\ LET sp == IF common_spacing = None THEN <<1, 1, 1>> ELSE common_spacing
       IN  /\ resampled' = <<1>> \o ResampledShape(img, pixdim, sp)
           /\ mask' = <<1>> \o ResampledShape(mask, pixdim, sp)
    /\ pc' = "resampled"
    /\ UNCHANGED <<dsVars, row, original_shape, pixdim, img, desired,
                   dynamic_batch_size, b_img, b_mask, error, result, csVars, saVars, dmVars>>

\* Lines 76-79 (and the resampling half of line 85). What the library does with
\* a volume that has no frame left is not fixed by this repository: it may
\* raise or hand back an empty grid.
GetItem_Resample ==
    /\ pc = "capped"
    /\ IF common_spacing = None
       THEN /\ pc' = "error"
            /\ error' = "COMMON SPACING IS NONE!"
            /\ UNCHANGED <<resampled, mask>>
       ELSE \/ /\ resampled' = <<1>> \o ResampledShape(img, pixdim, common_spacing)
               /\ mask' = <<1>> \o ResampledShape(mask, pixdim, common_spacing)
               /\ pc' = "resampled"
               /\ UNCHANGED error
            \/ /\ img[3] = 0
               /\ pc' = "error"
               /\ error' = "Resample"
               /\ UNCHANGED <<resampled, mask>>
    /\ UNCHANGED <<dsVars, row, original_shape, pixdim, img, desired,
                   dynamic_batch_size, b_img, b_mask, result, csVars, saVars, dmVars>>

\* Lines 81-85: crop or pad image and mask to the desired size. CropOrPad on a
\* target with an empty axis may raise or produce the empty tensor.
GetItem_CropOrPad ==
    /\ pc = "resampled"
    /\ desired' = get_desired_size(SubSeq(resampled, 2, 4))
    /\ \/ /\ img' = <<1>> \o desired'
          /\ mask' = <<1>> \o desired'
          /\ pc' = "cropped"
          /\ UNCHANGED error
       \/ /\ \E i \in 1..3 : desired'[i] = 0
          /\ pc' = "error"
          /\ error' = "CropOrPad"
          /\ UNCHANGED <<img, mask>>
    /\ UNCHANGED <<dsVars, row, original_shape, pixdim, resampled,
                   dynamic_batch_size, b_img, b_mask, result, csVars, saVars, dmVars>>

\* Lines 90-93 with the comparison of line 92 turned around.
DynamicBatchSize_cap_when_exceeding(length) ==
    IF ~Truthy(max_batch_size)
          \/ ~(max_batch_size[1] > 0 /\ max_batch_size[1] * max_window_len[1] > length)
    THEN length \div max_window_len[1]
    ELSE max_batch_size[1]

\* Lines 90-93, for img.shape[-1] = length.
DynamicBatchSize(length) ==
    IF ~Truthy(max_batch_size)
          \/ ~(max_batch_size[1] > 0 /\ max_batch_size[1] * max_window_len[1] < length)
    THEN length \div max_window_len[1]
    ELSE max_batch_size[1]

\* tensor.unsqueeze(0), lines 105-106.
Unsqueeze(shape) == <<1>> \o shape

\* Evaluation mode with the unsqueeze of lines 105-106 applied as well.
EvalTensor_unsqueezed(shape) == Unsqueeze(shape)

\* Line 87: in evaluation mode the whole `if not self.test` block is skipped
\* and the cropped tensor goes to the return statement as it is.
EvalTensor(shape) == shape

\* Lines 87-96 and 102-106: choose between windowing and the whole volume.
GetItem_Mode ==
    /\ pc = "cropped"
    /\ IF ~self_test
       THEN IF Truthy(max_window_len)
            THEN /\ dynamic_batch_size' = DynamicBatchSize(img[4])
                 /\ b_img' = <<>>
                 /\ b_mask' = <<>>
                 /\ pc' = "windowing"
                 /\ UNCHANGED <<img, mask>>
            ELSE /\ img' = Unsqueeze(img)
                 /\ mask' = Unsqueeze(mask)
                 /\ pc' = "return"
                 /\ UNCHANGED <<dynamic_batch_size, b_img, b_mask>>
       ELSE /\ img' = EvalTensor(img)
            /\ mask' = EvalTensor(mask)
            /\ pc' = "return"
            /\ UNCHANGED <<dynamic_batch_size, b_img, b_mask>>
    /\ UNCHANGED <<dsVars, row, original_shape, pixdim, resampled, desired,
                   error, result, csVars, saVars, dmVars>>

\* a[..., start:start + n] on an axis of the given length, as a frame range.
Window(start, n, length) == [start |-> Min(start, length), stop |-> Min(start + n, length)]

\* Lines 96-99: one iteration of the loop; np.random.randint draws start_idx
\* from [0, max(length - window, 1)).
GetItem_Window ==
    /\ pc = "windowing"
    /\ Len(b_img) < dynamic_batch_size
    /\ \E start_idx \in 0 .. (Max(img[4] - max_window_len[1], 1) - 1) :
          /\ b_img' = Append(b_img, Window(start_idx, max_window_len[1], img[4]))
          /\ b_mask' = Append(b_mask, Window(start_idx, max_window_len[1], mask[4]))
    /\ UNCHANGED <<dsVars, pc, row, original_shape, pixdim, img, mask, resampled,
                   desired, dynamic_batch_size, error, result, csVars, saVars, dmVars>>

WindowLen(w) == w.stop - w.start

\* torch.stack accepts a non-empty list of tensors of one shape.
Stackable(b) ==
    /\ Len(b) > 0
    /\ \A i \in 1..Len(b) : WindowLen(b[i]) = WindowLen(b[1])

\* Lines 100-101, once the loop of line 96 is over.
GetItem_Stack ==
    /\ pc = "windowing"
    /\ Len(b_img) >= dynamic_batch_size
    /\ IF Stackable(b_img) /\ Stackable(b_mask)
       THEN /\ img' = <<Len(b_img)>> \o [img EXCEPT ![4] = WindowLen(b_img[1])]
            /\ mask' = <<Len(b_mask)>> \o [mask EXCEPT ![4] = WindowLen(b_mask[1])]
            /\ pc' = "return"
            /\ UNCHANGED error
       ELSE /\ pc' = "error"
            /\ error' = "stack expects a non-empty TensorList"
            /\ UNCHANGED <<img, mask>>
    /\ UNCHANGED <<dsVars, row, original_shape, pixdim, resampled, desired,
                   dynamic_batch_size, b_img, b_mask, result, csVars, saVars, dmVars>>

\* Lines 116-124.
GetItem_Return ==
    /\ pc = "return"
    /\ result' = Some([image |-> img,
                      label |-> mask,
                      case_identifier |-> row,
                      original_shape |-> original_shape,
                      original_spacing |-> pixdim])
    /\ pc' = "done"
    /\ UNCHANGED <<dsVars, row, original_shape, pixdim, img, mask, resampled, desired,
                   dynamic_batch_size, b_img, b_mask, error, csVars, saVars, dmVars>>

\* A dataset about to be constructed with the default use_dataset_fraction.
Init ==
    /\ pc = "new"
    /\ split = 1..2
    /\ df = split
    /\ use_dataset_fraction = FracDen
    /\ self_test \in BOOLEAN
    /\ max_tensor_volume \in TensorVolumes
    /\ shape_divisible_by \in Divisors
    /\ max_window_len \in WindowLens
    /\ max_batch_size \in BatchSizes
    /\ common_spacing \in Spacings
    /\ warnings = {}
    /\ GetItemIdle /\ SpacingIdle /\ DsntIdle /\ SetupIdle

Next ==
    \/ DatasetInit
    \/ GetItem_Load
    \/ GetItem_Cap
    \/ GetItem_Resample
    \/ GetItem_CropOrPad
    \/ GetItem_Mode
    \/ GetItem_Window
    \/ GetItem_Stack
    \/ GetItem_Return

Spec == Init /\ [][Next]_vars

-----------------------------------------------------------------------------
\* Properties of the dataset.

IsSmallestMultipleGE(m, f, n) == m % f = 0 /\ m >= n /\ m - f < n
IsLargestMultipleLE(m, f, n) == m % f = 0 /\ m <= n /\ m + f > n

\* C1: in training mode get_desired_size returns, for the resampled shape
\* (w, h, d), the smallest multiple of fx that is >= w, the smallest multiple
\* of fy that is >= h and the largest multiple of fz that is <= d.
C1_TrainDesiredSize ==
    (~self_test /\ desired # None) =>
        /\ IsSmallestMultipleGE(desired[1], shape_divisible_by[1], resampled[2])
        /\ IsSmallestMultipleGE(desired[2], shape_divisible_by[2], resampled[3])
        /\ IsLargestMultipleLE(desired[3], shape_divisible_by[3], resampled[4])

C1_Witness ==
    /\ ~self_test /\ desired # None
    /\ resampled[2] % shape_divisible_by[1] # 0
    /\ resampled[4] % shape_divisible_by[3] # 0
    /\ desired[3] > 0

C3_WindowsNoCap ==
    (/\ ~self_test /\ Truthy(max_window_len) /\ max_batch_size = None
     /\ dynamic_batch_size # -1 /\ desired[3] > 0 /\ pc \in {"done", "error"}) =>
        /\ pc = "done"
        /\ Len(b_img) = desired[3] \div max_window_len[1]
        /\ result[1].image[1] = desired[3] \div max_window_len[1]
        /\ Len(b_mask) = Len(b_img)
        /\ \A i \in 1..Len(b_img) :
              /\ b_img[i].stop - b_img[i].start = max_window_len[1]
              /\ 0 <= b_img[i].start /\ b_img[i].stop <= desired[3]
              /\ b_mask[i] = b_img[i]

\* C4 as stated: with a window length W and a cap C the number of windows is
\* L // W, and is C instead exactly when C * W exceeds L.
C4_CapWhenExceeding ==
    (/\ ~self_test /\ Truthy(max_window_len) /\ max_batch_size # None
     /\ dynamic_batch_size # -1 /\ desired[3] > 0) =>
        dynamic_batch_size =
            IF max_batch_size[1] * max_window_len[1] > desired[3]
            THEN max_batch_size[1]
            ELSE desired[3] \div max_window_len[1]

\* C4 amended: with a window length W and a cap C the number of windows cut is
\* C when C is positive and C * W is smaller than L, and L // W otherwise; for
\* a positive cap that is min(C, L // W), and the loop cuts no more than that.
C4_CapWhenFitting ==
    (/\ ~self_test /\ Truthy(max_window_len) /\ max_batch_size # None
     /\ dynamic_batch_size # -1) =>
        LET C == max_batch_size[1]
            W == max_window_len[1]
            L == desired[3]
        IN  /\ (C > 0 /\ C * W < L) => dynamic_batch_size = C
            /\ ~(C > 0 /\ C * W < L) => dynamic_batch_size = L \div W
            /\ C > 0 => dynamic_batch_size = Min(C, L \div W)
            /\ Len(b_img) <= dynamic_batch_size
            /\ pc = "done" => result[1].image[1] = dynamic_batch_size

C4_Witness ==
    /\ ~self_test /\ Truthy(max_window_len) /\ max_batch_size # None
    /\ pc = "done"
    /\ max_batch_size[1] * max_window_len[1] < desired[3]
    /\ result[1].image[1] = max_batch_size[1]
    /\ max_batch_size[1] < desired[3] \div max_window_len[1]

\* C5 as stated: in evaluation mode the returned image and label carry an added
\* leading axis of size 1 in front of the crop-or-padded volume, as in training
\* mode without a window length.
C5_TestLeadingAxis ==
    (pc = "done" /\ self_test) =>
        /\ result[1].image = <<1, 1>> \o desired
        /\ result[1].label = <<1, 1>> \o desired

\* C5 amended: in evaluation mode the returned image and label are the
\* crop-or-padded volume itself (channel, x, y, z: four axes, no added leading
\* axis); in training mode without a window length they carry one more axis,
\* a leading axis of size 1.
C5_TestNoLeadingAxis ==
    pc = "done" =>
        /\ self_test =>
              /\ result[1].image = <<1>> \o desired
              /\ result[1].label = <<1>> \o desired
              /\ Len(result[1].image) = 4
        /\ (~self_test /\ ~Truthy(max_window_len)) =>
              /\ result[1].image = <<1, 1>> \o desired
              /\ result[1].label = <<1, 1>> \o desired
              /\ Len(result[1].image) = 5

C5_Witness ==
    /\ pc = "done" /\ self_test
    /\ Len(result[1].image) = 4
    /\ result[1].image[4] > 1

\* C6: in training mode a loaded volume of more than max_tensor_volume voxels
\* has the temporal axis of image and mask cut to the largest t' with
\* w * h * t' <= max_tensor_volume, the spatial axes untouched; a volume within
\* the budget, and any volume in evaluation mode, is not cut.
C6_Truncation ==
    pc = "capped" =>
        LET w == original_shape[1]
            h == original_shape[2]
            t == original_shape[3]
        IN  IF ~self_test /\ w * h * t > max_tensor_volume
            THEN /\ img = mask
                 /\ img[1] = w /\ img[2] = h
                 /\ w * h * img[3] <= max_tensor_volume
                 /\ w * h * (img[3] + 1) > max_tensor_volume
            ELSE img = original_shape /\ mask = original_shape

C6_Witness ==
    /\ pc = "capped" /\ ~self_test
    /\ original_shape[1] * original_shape[2] * original_shape[3] > max_tensor_volume
    /\ img[3] >= 2 /\ img[3] < original_shape[3]

\* C10: with common_spacing None no __getitem__ call gets past the check of
\* the spacing: it resamples nothing, returns no record, and the only way it
\* ends is the "COMMON SPACING IS NONE!" exception.
C10_MissingSpacingIsFatal ==
    common_spacing = None =>
        /\ result = None
        /\ resampled = None /\ desired = None
        /\ pc \in {"new", "ready", "loaded", "capped", "error"}
        /\ pc = "error" => error = "COMMON SPACING IS NONE!"
        /\ pc = "capped" => ENABLED GetItem_Resample

C10_Witness ==
    /\ common_spacing = None /\ pc = "error"
    /\ error = "COMMON SPACING IS NONE!"
    /\ img # None /\ result = None

\* C7 as stated: the constructor prints the invalid-fraction warning and keeps
\* every row exactly when use_dataset_fraction is outside (0, 1]; inside
\* (0, 1] it prints no such warning and the length is that of the sampled split.
C7_FractionWarning ==
    pc = "ready" =>
        LET valid == 0 < use_dataset_fraction /\ use_dataset_fraction <= FracDen
        IN  /\ ("invalid_fraction" \in warnings) <=> ~valid
            /\ ~valid => df = split
            /\ valid => /\ df \subseteq split
                        /\ DatasetLen = Round(use_dataset_fraction * Cardinality(split),
                                              FracDen)

-----------------------------------------------------------------------------
\* PatchlessnnUnetDataModule.calculate_common_spacing

SpacingHeaders == {<<1, 1, 1>>, <<1, 1, 2>>, <<2, 2, 1>>}
SeqsUpTo(S, n) == UNION {[1..k -> S] : k \in 0..n}

\* random.shuffle: any order of the list.
Shuffles(n) == {p \in [1..n -> 0..(n - 1)] : \A i, j \in 1..n : p[i] = p[j] => i = j}

\* lst[:stop] for stop >= 0.
Prefix(lst, stop) == SubSeq(lst, 1, Min(stop, Len(lst)))

InitSpacing ==
    /\ cs_pc = "start"
    /\ cs_headers \in SeqsUpTo(SpacingHeaders, MaxRows)
    /\ cs_num_samples \in 1..MaxSamples
    /\ cs_idx = <<>> /\ cs_read = <<>> /\ cs_spacings = <<0, 0, 0>> /\ cs_result = None
    /\ DatasetIdle /\ DsntIdle /\ SetupIdle

\* Lines 301-304.
Calc_Shuffle ==
    /\ cs_pc = "start"
    /\ \E p \in Shuffles(Len(cs_headers)) :
          cs_idx' = Prefix(p, Max(cs_num_samples, Len(p)))
    /\ cs_spacings' = <<0, 0, 0>>
    /\ cs_pc' = "loop"
    /\ UNCHANGED <<dsVars, giVars, saVars, dmVars, cs_headers, cs_num_samples, cs_read, cs_result>>

\* Lines 306-309: one iteration, reading the header of record idx[k].
Calc_Read ==
    /\ cs_pc = "loop"
    /\ Len(cs_read) < Len(cs_idx)
    /\ LET i == cs_idx[Len(cs_read) + 1]
       IN  /\ cs_spacings' = [a \in 1..3 |-> cs_spacings[a] + cs_headers[i + 1][a]]
           /\ cs_read' = Append(cs_read, i)
    /\ UNCHANGED <<dsVars, giVars, saVars, dmVars, cs_pc, cs_headers, cs_num_samples, cs_idx,
                   cs_result>>

\* Line 311: spacings / len(idx), kept as the pair of the sum and the divisor
\* (numpy yields nan on every axis when the divisor is 0).
Calc_Return ==
    /\ cs_pc = "loop"
    /\ Len(cs_read) = Len(cs_idx)
    /\ cs_result' = Some([sum |-> cs_spacings, n |-> Len(cs_idx)])
    /\ cs_pc' = "done"
    /\ UNCHANGED <<dsVars, giVars, saVars, dmVars, cs_headers, cs_num_samples, cs_idx, cs_read,
                   cs_spacings>>

NextSpacing == Calc_Shuffle \/ Calc_Read \/ Calc_Return
SpecSpacing == InitSpacing /\ [][NextSpacing]_vars

RECURSIVE SumRange(_, _)
\* f[0] + ... + f[n - 1]
SumRange(f, n) == IF n = 0 THEN 0 ELSE f[n - 1] + SumRange(f, n - 1)

\* C8 as stated: calculate_common_spacing(num_samples) on n records reads
\* exactly min(num_samples, n) distinct records and returns their per-axis mean.
C8_AtMostNumSamples ==
    cs_pc = "done" =>
        /\ Len(cs_read) = Min(cs_num_samples, Len(cs_headers))
        /\ \A i, j \in 1..Len(cs_read) : cs_read[i] = cs_read[j] => i = j
        /\ cs_result[1].n = Len(cs_read)
        /\ \A a \in 1..3 :
              cs_result[1].sum[a] =
                  SumRange([k \in 0..(Len(cs_read) - 1) |-> cs_headers[cs_read[k + 1] + 1][a]],
                           Len(cs_read))

-----------------------------------------------------------------------------
\* custom_dsnt.soft_argmax and linear_expectation, for a heatmap of five axes
\* (batch, channel, H, W, trailing) with one batch entry and one channel.
\* A coordinate value is the fraction [num, den].

\* torch.arange(0, d): lines 26-27.
Arange(d) == [k \in 0..(d - 1) |-> [num |-> k, den |-> 1]]

\* normalized_linspace(d): k * (2 / d) - (d - 1) / d, lines 64-65.
normalized_linspace(d) == [k \in 0..(d - 1) |-> [num |-> 2 * k - (d - 1), den |-> d]]

\* The heatmaps with all the mass of each slice t in one cell.
OneHot(H, W, T) ==
    {[c \in (0..(H - 1)) \X (0..(W - 1)) \X (0..(T - 1)) |->
         IF cell[c[3]] = <<c[1], c[2]>> THEN 1 ELSE 0] :
       cell \in [0..(T - 1) -> (0..(H - 1)) \X (0..(W - 1))]}

InitDsnt ==
    /\ sa_pc = "start"
    /\ \E H \in 1..MaxHeat, W \in 1..MaxHeat, T \in 1..MaxTrail :
          /\ sa_size = <<1, 1, H, W, T>>
          /\ heatmaps \in OneHot(H, W, T)
    /\ normalized_coordinates \in BOOLEAN
    /\ coords = <<>>
    /\ DatasetIdle /\ SpacingIdle /\ SetupIdle

\* Lines 12-15 for i = 2 (sum out axis 3) and for i = 3 (sum out axis 2): the
\* marginal over the remaining spatial axis and the trailing axis.
MargH == [c \in (0..(sa_size[3] - 1)) \X (0..(sa_size[5] - 1)) |->
             SumRange([w \in 0..(sa_size[4] - 1) |-> heatmaps[<<c[1], w, c[2]>>]], sa_size[4])]
MargW == [c \in (0..(sa_size[4] - 1)) \X (0..(sa_size[5] - 1)) |->
             SumRange([h \in 0..(sa_size[3] - 1) |-> heatmaps[<<h, c[1], c[2]>>]], sa_size[3])]

\* Line 17: marg, of shape (B, C, n, T), is viewed as rows of n consecutive
\* elements of its memory and multiplied by values, viewed back and summed over
\* axis -2. Element (b, c, k, t) lies at offset ((b * C + c) * n + k) * T + t,
\* so it falls in column offset % n of its row. Here b = c = 0.
Column(k, t, n, T) == (k * T + t) % n

Expectation(marg, values, n, T, t) ==
    [num |-> SumRange([k \in 0..(n - 1) |-> marg[<<k, t>>] * values[Column(k, t, n, T)].num], n),
     den |-> values[0].den]

\* linear_expectation, lines 7-18: per slice t the tuple stacked on axis -1.
linear_expectation(values) ==
    [t \in 0..(sa_size[5] - 1) |->
        <<Expectation(MargH, values[1], sa_size[3], sa_size[5], t),
          Expectation(MargW, values[2], sa_size[4], sa_size[5], t)>>]

\* Lines 22-28.
SoftArgmax_Expect ==
    /\ sa_pc = "start"
    /\ LET values == IF normalized_coordinates
                     THEN <<normalized_linspace(sa_size[3]), normalized_linspace(sa_size[4])>>
                     ELSE <<Arange(sa_size[3]), Arange(sa_size[4])>>
       IN  coords' = linear_expectation(values)
    /\ sa_pc' = "expected"
    /\ UNCHANGED <<dsVars, giVars, csVars, dmVars, heatmaps, sa_size, normalized_coordinates>>

\* Lines 31-32: the last axis is reversed.
SoftArgmax_Flip ==
    /\ sa_pc = "expected"
    /\ coords' = [t \in DOMAIN coords |->
                     [i \in 1..Len(coords[t]) |-> coords[t][Len(coords[t]) + 1 - i]]]
    /\ sa_pc' = "done"
    /\ UNCHANGED <<dsVars, giVars, csVars, dmVars, heatmaps, sa_size, normalized_coordinates>>

NextDsnt == SoftArgmax_Expect \/ SoftArgmax_Flip
SpecDsnt == InitDsnt /\ [][NextDsnt]_vars

\* C9 as stated: for a heatmap, of any axis sizes, whose mass in each slice is
\* all at one cell (h, w), soft_argmax in pixel mode returns for that slice the
\* integer indices of the cell in reversed axis order: (w, h).
C9_OneHotPixel ==
    (sa_pc = "done" /\ ~normalized_coordinates) =>
        \A t \in 0..(sa_size[5] - 1) :
            \A h \in 0..(sa_size[3] - 1), w \in 0..(sa_size[4] - 1) :
                heatmaps[<<h, w, t>>] = 1 =>
                    coords[t] = <<[num |-> w, den |-> 1], [num |-> h, den |-> 1]>>

-----------------------------------------------------------------------------
\* PatchlessnnUnetDataModule.setup

Table == 1..MaxTable
Labels == {"train", "val", "test"}
Stages == {"fit", "test", "None"}
Range(f) == {f[i] : i \in DOMAIN f}

RECURSIVE IndexList(_)
\* df.index.to_list() / df.index[...].tolist(): the row ids in table order.
IndexList(S) ==
    IF S = {} THEN <<>>
    ELSE LET m == CHOOSE x \in S : \A y \in S : x <= y
         IN  <<m>> \o IndexList(S \ {m})

RECURSIVE OrdersOf(_)
\* Every order of the elements of S, as a list.
OrdersOf(S) ==
    IF S = {} THEN {<<>>}
    ELSE UNION {{<<x>> \o p : p \in OrdersOf(S \ {x})} : x \in S}

\* The values numpy's permutation(n) can take: the orders of 0 .. n-1.
NumpyPermutations(n) == OrdersOf(0..(n - 1))

\* Lines 226-228: train_size=0.8 gives floor(0.8 * n) train entries and the
\* rest as test entries. Lines 229-231: test_size=0.5 gives ceil(0.5 * n) test
\* entries and the rest as train entries.
FirstTrainSize(n) == (4 * n) \div 5
SecondTestSize(n) == Ceil(n, 2)

\* The data module after __init__ (lines 170-181): the table is read, no split
\* attribute exists yet. hparams.seed is an integer, so the permutation numpy
\* draws for a list of a given length is the same at every call; dm_rng1 and
\* dm_rng2 hold it for the two lengths setup splits.
InitSetup ==
    /\ dm_df = Table
    /\ \/ /\ splits_column = TRUE
          /\ dm_valid = Table \ {1}
          /\ dm_column \in {Some(l) : l \in [Table -> Labels]}
          /\ dm_rng1 = [i \in 1..Cardinality(dm_valid) |-> i - 1]
          /\ dm_rng2 = [i \in 1..(Cardinality(dm_valid) - FirstTrainSize(Cardinality(dm_valid)))
                          |-> i - 1]
       \/ /\ splits_column \in BOOLEAN
          /\ dm_valid \in {Table \ {1}, 1..3, {}}
          /\ dm_column = None
          /\ dm_rng1 \in NumpyPermutations(Cardinality(dm_valid))
          /\ dm_rng2 \in NumpyPermutations(Cardinality(dm_valid) -
                                             FirstTrainSize(Cardinality(dm_valid)))
    /\ train_idx = <<>> /\ val_idx = <<>> /\ test_idx = <<>>
    /\ data_train = None /\ data_val = None /\ data_test = None
    /\ csv_writes = 0 /\ setup_calls = 0 /\ setup_error = FALSE
    /\ DatasetIdle /\ SpacingIdle /\ DsntIdle

\* The permutation drawn with the generator seeded anew at every other call.
Permutation_reseeded(n) ==
    LET p == IF n = Len(dm_rng1) THEN dm_rng1 ELSE dm_rng2
    IN  IF setup_calls % 2 = 1 THEN [i \in 1..n |-> p[n + 1 - i]] ELSE p

\* RandomState(random_state).permutation(n), random_state = hparams.seed
\* (lines 228 and 231).
Permutation(n) == IF n = Len(dm_rng1) THEN dm_rng1 ELSE dm_rng2

\* train_test_split(lst, ...) of lines 226-231 for the sizes it derived: the
\* test part is lst at permutation[:n_test], the train part lst at
\* permutation[n_test:n_test + n_train].
TrainPart(lst, n_train, n_test) ==
    [i \in 1..n_train |-> lst[Permutation(Len(lst))[n_test + i] + 1]]
TestPart(lst, n_test) ==
    [i \in 1..n_test |-> lst[Permutation(Len(lst))[i] + 1]]

\* df.index[df[splits_column] == label].tolist(), lines 220-222.
IndexWhere(rows, labels, label) == IndexList({r \in rows : labels[r] = label})

\* Lines 234-236: three .loc assignments in turn, the later one winning.
NewColumn(rows, tr, va, te) ==
    [r \in rows |-> IF r \in Range(te) THEN "test"
                    ELSE IF r \in Range(va) THEN "val"
                    ELSE IF r \in Range(tr) THEN "train"
                    ELSE "nan"]

\* Lines 239-269: the datasets built for a stage, each from df.loc[idx].
BuildDatasets(stage, tr, va, te) ==
    /\ IF stage \in {"fit", "None"}
       THEN data_train' = Some(Range(tr)) /\ data_val' = Some(Range(va))
       ELSE UNCHANGED <<data_train, data_val>>
    /\ IF stage \in {"test", "None"}
       THEN data_test' = Some(Range(te))
       ELSE UNCHANGED data_test

\* setup(stage), lines 193-269. The spacing estimate of lines 209-214 reads
\* headers only, sets no attribute of the module and shuffles with Python's
\* random module, not with the generator the split seeds. train_test_split
\* raises when a list is empty or its train part would be; the stage is the
\* argument of the call.
Setup ==
    /\ setup_calls < MaxCalls
    /\ setup_calls' = setup_calls + 1
    /\ \E rows \in {dm_df \cap dm_valid} :
       \E lst \in {IndexList(rows)} :
       LET n_train == FirstTrainSize(Len(lst))
           n_test == Len(lst) - n_train
           kept == IF dm_column = None THEN None
                   ELSE Some([r \in rows |-> dm_column[1][r]])
       IN
       /\ dm_df' = rows
       /\ IF splits_column /\ dm_column # None
          THEN \E tr \in {IndexWhere(rows, dm_column[1], "train")},
                  va \in {IndexWhere(rows, dm_column[1], "val")},
                  te \in {IndexWhere(rows, dm_column[1], "test")} :
                   /\ train_idx' = tr /\ val_idx' = va /\ test_idx' = te
                   /\ dm_column' = kept
                   /\ setup_error' = FALSE
                   /\ UNCHANGED csv_writes
                   /\ \E stage \in Stages : BuildDatasets(stage, tr, va, te)
          ELSE IF Len(lst) = 0 \/ n_train = 0
          THEN /\ setup_error' = TRUE
               /\ dm_column' = kept
               /\ UNCHANGED <<train_idx, val_idx, test_idx, csv_writes,
                              data_train, data_val, data_test>>
          ELSE \E tr \in {TrainPart(lst, n_train, n_test)},
                  val_and_test_idx \in {TestPart(lst, n_test)} :
               LET n_test2 == SecondTestSize(Len(val_and_test_idx))
                   n_train2 == Len(val_and_test_idx) - n_test2
               IN  /\ train_idx' = tr
                   /\ IF n_train2 = 0
                      THEN /\ setup_error' = TRUE
                           /\ dm_column' = kept
                           /\ UNCHANGED <<val_idx, test_idx, csv_writes,
                                          data_train, data_val, data_test>>
                      ELSE \E va \in {TrainPart(val_and_test_idx, n_train2, n_test2)},
                              te \in {TestPart(val_and_test_idx, n_test2)} :
                               /\ val_idx' = va /\ test_idx' = te
                               /\ setup_error' = FALSE
                               /\ IF splits_column
                                  THEN /\ dm_column' = Some(NewColumn(rows, tr, va, te))
                                       /\ csv_writes' = csv_writes + 1
                                  ELSE /\ dm_column' = kept
                                       /\ UNCHANGED csv_writes
                               /\ \E stage \in Stages : BuildDatasets(stage, tr, va, te)
    /\ UNCHANGED <<dsVars, giVars, csVars, saVars, dm_valid, splits_column,
                   dm_rng1, dm_rng2>>

NextSetup == Setup
SpecSetup == InitSetup /\ [][NextSetup]_vars

Disjoint3(a, b, c) == a \cap b = {} /\ a \cap c = {} /\ b \cap c = {}

\* C11: over any sequence of setup calls with any stages, with the split column
\* present, configured but absent, or not configured, the train, validation and
\* test index sets stay the sets of the first call, they are pairwise disjoint,
\* and a freshly created split covers every valid row.
C11_SplitIdempotent ==
    /\ [](/\ (setup_calls >= 1 /\ ~setup_error) =>
                /\ Disjoint3(Range(train_idx), Range(val_idx), Range(test_idx))
                /\ dm_df = dm_valid
          /\ (setup_calls >= 1 /\ ~setup_error /\ (csv_writes >= 1 \/ ~splits_column)) =>
                Range(train_idx) \cup Range(val_idx) \cup Range(test_idx) = dm_df)
    /\ [][setup_calls >= 1 =>
             /\ Range(train_idx') = Range(train_idx)
             /\ Range(val_idx') = Range(val_idx)
             /\ Range(test_idx') = Range(test_idx)
             /\ setup_error' = setup_error]_vars

C11_Witness ==
    /\ setup_calls >= 2 /\ ~setup_error
    /\ splits_column /\ csv_writes = 1
    /\ train_idx # <<>> /\ val_idx # <<>> /\ test_idx # <<>>
    /\ train_idx = IndexList(Range(train_idx))
    /\ data_train # None /\ data_test # None
    /\ dm_df # Table

====
